---- MODULE Spec2Model ----
(***************************************************************************)
(* Hamming (31, 26) encoder / decoder of hamming3126.py.                   *)
(*                                                                         *)
(* Two specifications share the module:                                    *)
(*   SpecBloco  one 26-bit block through the codec: placement and parities, *)
(*              bit inversions on the stored word, syndrome, correction,   *)
(*              extraction;                                                *)
(*   Spec       one file through codificar_arquivo, an optional change of  *)
(*              the .hamming text, and decodificar_arquivo.                *)
(***************************************************************************)
EXTENDS Integers, Sequences, FiniteSets, TLC

VARIABLES
    pc,                \* position of the run
    erro,              \* exception that ended decoding, "nenhum" if none
    bloco_dados,       \* SpecBloco: the 26 data bits given to the encoder
    palavra_enviada,   \* SpecBloco: the 31-character token the encoder emitted
    palavra_recebida,  \* SpecBloco: the token the decoder reads
    invertidos,        \* SpecBloco: positions inverted between the two
    pos_erro,          \* SpecBloco: value returned by descobrir_pos_erro
    palavra_corrigida, \* SpecBloco: palavra after lines 99-100
    bloco_saida,       \* SpecBloco: the data bits the decoder extracted
    dados_bytes,       \* Spec: content of the input file
    arq_hamming,       \* Spec: the .hamming file
    arq_dec,           \* Spec: the .dec file
    alteracao,         \* Spec: what was done to the .hamming text
    bitstream,         \* Spec: decoder's bitstream at line 104
    tamanho_original   \* Spec: decoder's header value at line 104

vars == <<pc, erro, bloco_dados, palavra_enviada, palavra_recebida, invertidos,
          pos_erro, palavra_corrigida, bloco_saida, dados_bytes, arq_hamming,
          arq_dec, alteracao, bitstream, tamanho_original>>

varsBloco == <<bloco_dados, palavra_enviada, palavra_recebida, invertidos,
               pos_erro, palavra_corrigida, bloco_saida>>

varsArquivo == <<dados_bytes, arq_hamming, arq_dec, alteracao, bitstream,
                 tamanho_original>>

-----------------------------------------------------------------------------
(* Constants, lines 14-16 *)

TAMANHO_PALAVRA == 31

POS_PARIDADE == <<1, 2, 4, 8, 16>>

Elementos(s) == {s[k] : k \in 1..Len(s)}

\* A Python list comprehension is evaluated when it is written: the
\* concatenation makes TLC build the sequence instead of keeping the rule.
Lista(f) == f \o <<>>

POS_DADOS == SelectSeq([i \in 1..31 |-> i], LAMBDA i : i \notin Elementos(POS_PARIDADE))

-----------------------------------------------------------------------------
(* Python's & ^ | on non-negative ints *)

RECURSIVE BitAnd(_, _)
BitAnd(a, b) ==
    IF a = 0 \/ b = 0 THEN 0
    ELSE (a % 2) * (b % 2) + 2 * BitAnd(a \div 2, b \div 2)

RECURSIVE BitXor(_, _)
BitXor(a, b) ==
    IF a = 0 THEN b
    ELSE IF b = 0 THEN a
    ELSE (((a % 2) + (b % 2)) % 2) + 2 * BitXor(a \div 2, b \div 2)

RECURSIVE BitOr(_, _)
BitOr(a, b) ==
    IF a = 0 THEN b
    ELSE IF b = 0 THEN a
    ELSE (IF a % 2 = 1 \/ b % 2 = 1 THEN 1 ELSE 0) + 2 * BitOr(a \div 2, b \div 2)

-----------------------------------------------------------------------------
(* calcular_paridades, lines 32-41.  palavra_bits holds indices 1..n of    *)
(* the list, updated in place one parity position after another.           *)

\* Variant of XorParidade whose range stops before position 31
\* (range(1, TAMANHO_PALAVRA)).
XorParidadeSem31(palavra_bits, pos_paridade) ==
    LET xor_acumulado[indice \in 0..TAMANHO_PALAVRA - 1] ==
            IF indice = 0 THEN 0
            ELSE IF indice # pos_paridade /\ BitAnd(indice, pos_paridade) # 0
                 THEN BitXor(xor_acumulado[indice - 1], palavra_bits[indice])
                 ELSE xor_acumulado[indice - 1]
    IN xor_acumulado[TAMANHO_PALAVRA - 1]

\* lines 37-40
XorParidade(palavra_bits, pos_paridade) ==
    LET xor_acumulado[indice \in 0..TAMANHO_PALAVRA] ==
            IF indice = 0 THEN 0
            ELSE IF indice # pos_paridade /\ BitAnd(indice, pos_paridade) # 0
                 THEN BitXor(xor_acumulado[indice - 1], palavra_bits[indice])
                 ELSE xor_acumulado[indice - 1]
    IN xor_acumulado[TAMANHO_PALAVRA]

\* lines 36 and 41: the word after the k first parity positions are set
RECURSIVE LacoParidades(_, _)
LacoParidades(palavra_bits, k) ==
    IF k = 0 THEN palavra_bits
    ELSE LET antes == LacoParidades(palavra_bits, k - 1)
         IN [antes EXCEPT ![POS_PARIDADE[k]] = XorParidade(antes, POS_PARIDADE[k])]

calcular_paridades(palavra_bits) == LacoParidades(palavra_bits, Len(POS_PARIDADE))

-----------------------------------------------------------------------------
(* One block of the loop of codificar_arquivo, lines 60-67 *)

Zeros(n) == Lista([k \in 1..n |-> 0])

\* Variant of Preencher that pads in front of the block.
PreencherAEsquerda(bloco) == Zeros(26 - Len(bloco)) \o bloco

\* line 60
Preencher(bloco) == bloco \o Zeros(26 - Len(bloco))

\* lines 62-64: palavra_bits = [0] * 32, then palavra_bits[pos] = bit for the
\* pairs of zip(bloco_dados, POS_DADOS), which stops at the shorter list.
\* palavra_bits[1..31] is kept as a sequence; index 0 is never read or written.
RECURSIVE LacoColocar(_, _, _)
LacoColocar(palavra_bits, bloco, k) ==
    IF k > Len(bloco) \/ k > Len(POS_DADOS) THEN palavra_bits
    ELSE LacoColocar([palavra_bits EXCEPT ![POS_DADOS[k]] = bloco[k]], bloco, k + 1)

ColocarDados(bloco) == LacoColocar(<<0, 0, 0, 0, 0, 0, 0, 0, 0, 0, 0, 0, 0, 0, 0, 0,
                                     0, 0, 0, 0, 0, 0, 0, 0, 0, 0, 0, 0, 0, 0, 0>>,
                                   bloco, 1)

Digitos == <<"0", "1", "2", "3", "4", "5", "6", "7", "8", "9">>

\* str(b) of line 67
Str(b) == Digitos[b + 1]

\* line 67: ''.join(str(b) for b in palavra_bits[1:])
PalavraTexto(palavra_bits) == Lista([i \in 1..31 |-> Str(palavra_bits[i])])

CodificarBloco(bloco) == PalavraTexto(calcular_paridades(ColocarDados(bloco)))

-----------------------------------------------------------------------------
(* descobrir_pos_erro, lines 75-85 *)

\* lines 79-82
XorVerificacao(palavra_bits, pos_paridade) ==
    LET xor_acumulado[indice \in 0..TAMANHO_PALAVRA] ==
            IF indice = 0 THEN 0
            ELSE IF BitAnd(indice, pos_paridade) # 0
                 THEN BitXor(xor_acumulado[indice - 1], palavra_bits[indice])
                 ELSE xor_acumulado[indice - 1]
    IN xor_acumulado[TAMANHO_PALAVRA]

\* lines 77-85 over the first n parity positions
LacoSindrome(palavra_bits, n) ==
    LET pos_erro_ate[k \in 0..n] ==
            IF k = 0 THEN 0
            ELSE IF XorVerificacao(palavra_bits, POS_PARIDADE[k]) # 0
                 THEN BitOr(pos_erro_ate[k - 1], POS_PARIDADE[k])
                 ELSE pos_erro_ate[k - 1]
    IN pos_erro_ate[n]

\* Variant of descobrir_pos_erro that skips the last parity position.
descobrir_pos_erro_sem16(palavra_bits) == LacoSindrome(palavra_bits, Len(POS_PARIDADE) - 1)

descobrir_pos_erro(palavra_bits) == LacoSindrome(palavra_bits, Len(POS_PARIDADE))

-----------------------------------------------------------------------------
(* One token of the loop of decodificar_arquivo, lines 93-102 *)

\* Variant of TamanhoInvalido that rejects only short tokens.
TamanhoInvalidoSoCurto(str_palavra) == Len(str_palavra) < TAMANHO_PALAVRA

\* line 93
TamanhoInvalido(str_palavra) == Len(str_palavra) # TAMANHO_PALAVRA

\* int(c) of line 96 raises ValueError unless c is a decimal digit
EhDigito(c) == \E v \in 1..Len(Digitos) : Digitos[v] = c

IntDe(c) == (CHOOSE v \in 1..Len(Digitos) : Digitos[v] = c) - 1

\* line 96: [0] + [int(c) for c in str_palavra], positions 1..len
LerPalavra(str_palavra) ==
    Lista([k \in 1..Len(str_palavra) |-> IntDe(str_palavra[k])])

\* Variants of Corrigir: pos_erro < TAMANHO_PALAVRA, and no correction at all.
CorrigirSem31(palavra, pos) ==
    IF 1 <= pos /\ pos < TAMANHO_PALAVRA
    THEN [palavra EXCEPT ![pos] = BitXor(palavra[pos], 1)]
    ELSE palavra

NaoCorrigir(palavra, pos) == palavra

\* lines 99-100
Corrigir(palavra, pos) ==
    IF 1 <= pos /\ pos <= TAMANHO_PALAVRA
    THEN [palavra EXCEPT ![pos] = BitXor(palavra[pos], 1)]
    ELSE palavra

\* line 102: palavra[pos] for pos in POS_DADOS
ExtrairDados(palavra) == Lista([k \in 1..Len(POS_DADOS) |-> palavra[POS_DADOS[k]]])

\* lines 96-102 for a token that passed line 93 and holds only digits
DecodificarToken(str_palavra) ==
    LET palavra == LerPalavra(str_palavra)
        pos == descobrir_pos_erro(palavra)
        corrigida == Corrigir(palavra, pos)
    IN [pos_erro |-> pos, palavra |-> corrigida, dados |-> ExtrairDados(corrigida)]

-----------------------------------------------------------------------------
(* Python ints of any size: the binary digits, least significant first,    *)
(* without leading zeros (0 is the empty sequence).                        *)

RECURSIVE IntDeNat(_)
IntDeNat(n) == IF n = 0 THEN <<>> ELSE <<n % 2>> \o IntDeNat(n \div 2)

RECURSIVE NatDeInt(_)
NatDeInt(x) == IF x = <<>> THEN 0 ELSE Head(x) + 2 * NatDeInt(Tail(x))

\* (valor >> i) & 1
BitDoInt(valor, i) == IF i < Len(valor) THEN valor[i + 1] ELSE 0

SemZerosAEsquerda(bits) ==
    LET uns == {i \in 1..Len(bits) : bits[i] = 1}
    IN IF uns = {} THEN <<>>
       ELSE SubSeq(bits, 1, CHOOSE i \in uns : \A j \in uns : j <= i)

\* int.from_bytes(dados_bytes, 'big')
IntDeBytes(dados) ==
    SemZerosAEsquerda(
        Lista([i \in 1..8 * Len(dados) |->
                (dados[Len(dados) - ((i - 1) \div 8)] \div (2 ^ ((i - 1) % 8))) % 2]))

\* valor.to_bytes(tamanho, 'big') raises OverflowError when valor needs more bytes
NaoCabe(valor, tamanho) == Len(valor) > 8 * tamanho

ByteDoInt(valor, k) ==
    BitDoInt(valor, 8 * k) + 2 * BitDoInt(valor, 8 * k + 1)
    + 4 * BitDoInt(valor, 8 * k + 2) + 8 * BitDoInt(valor, 8 * k + 3)
    + 16 * BitDoInt(valor, 8 * k + 4) + 32 * BitDoInt(valor, 8 * k + 5)
    + 64 * BitDoInt(valor, 8 * k + 6) + 128 * BitDoInt(valor, 8 * k + 7)

\* Variant of BytesDoInt that writes only the bytes the value needs.
BytesMinimos(valor, tamanho) ==
    Lista([k \in 1..(Len(valor) + 7) \div 8 |->
            ByteDoInt(valor, ((Len(valor) + 7) \div 8) - k)])

BytesDoInt(valor, tamanho) ==
    Lista([k \in 1..tamanho |-> ByteDoInt(valor, tamanho - k)])

-----------------------------------------------------------------------------
(* Conversions, lines 20-28 *)

inteiro_para_bits(valor, tamanho) ==
    Lista([k \in 1..tamanho |-> BitDoInt(valor, tamanho - k)])

\* (v >> j) & 1 for a list element v
BitDoElemento(v, j) == IF j < 0 THEN 0 ELSE (v \div (2 ^ j)) % 2

\* lines 25-28.  After the loop resultado is the OR of bits[k] << (len - k)
\* over all k: each pass shifts what was gathered by one and ORs the new
\* element in.  Binary digit i of the result is therefore set when some
\* element has its digit i - (len - k) set; an element is at most 9, so only
\* the four elements len - i .. len - i + 3 can reach digit i.
bits_para_inteiro(bits) ==
    LET n == Len(bits)
    IN SemZerosAEsquerda(
        Lista([d \in 1..n + 3 |->
            IF \E k \in (n - d + 1)..(n - d + 4) :
                  /\ 1 <= k
                  /\ k <= n
                  /\ BitDoElemento(bits[k], (d - 1) - (n - k)) = 1
            THEN 1 ELSE 0]))

\* list[a:b] with 0 <= a <= b
Fatia(lista, a, b) ==
    IF a >= Len(lista) THEN <<>>
    ELSE SubSeq(lista, a + 1, IF b <= Len(lista) THEN b ELSE Len(lista))

-----------------------------------------------------------------------------
(* codificar_arquivo, lines 45-71 *)

\* lines 49-54
Enquadrar(dados) ==
    inteiro_para_bits(IntDeNat(Len(dados)), 32)
    \o inteiro_para_bits(IntDeBytes(dados), Len(dados) * 8)

\* Variant of LacoCodificar that stops when fewer than 26 bits remain.
RECURSIVE LacoCodificarSemResto(_)
LacoCodificarSemResto(resto) ==
    IF Len(resto) < 26 THEN <<>>
    ELSE <<CodificarBloco(Preencher(Fatia(resto, 0, 26)))>>
         \o LacoCodificarSemResto(Fatia(resto, 26, Len(resto)))

\* lines 56-67: the loop runs while bitstream is not empty
RECURSIVE LacoCodificar(_)
LacoCodificar(resto) ==
    IF resto = <<>> THEN <<>>
    ELSE <<CodificarBloco(Preencher(Fatia(resto, 0, 26)))>>
         \o LacoCodificar(Fatia(resto, 26, Len(resto)))

\* ' '.join(palavras) of line 70
RECURSIVE Juntar(_)
Juntar(palavras) ==
    IF palavras = <<>> THEN <<>>
    ELSE IF Len(palavras) = 1 THEN palavras[1]
    ELSE palavras[1] \o <<" ">> \o Juntar(Tail(palavras))

CodificarTexto(dados) == Juntar(LacoCodificar(Enquadrar(dados)))

-----------------------------------------------------------------------------
(* decodificar_arquivo, lines 88-110 *)

\* str.split() of line 89: the maximal runs of non-blank characters, in order
Split(texto) ==
    LET n == Len(texto)
        inicios == {i \in 1..n : texto[i] # " " /\ (i = 1 \/ texto[i - 1] = " ")}
        fins == {i \in 1..n : texto[i] # " " /\ (i = n \/ texto[i + 1] = " ")}
        Ordem(S, k) == CHOOSE i \in S : Cardinality({j \in S : j < i}) = k - 1
    IN Lista([k \in 1..Cardinality(inicios) |->
                SubSeq(texto, Ordem(inicios, k), Ordem(fins, k))])

\* lines 93-96: what stops the loop at this token
ErroDoToken(str_palavra) ==
    IF TamanhoInvalido(str_palavra) THEN "ValueError"
    ELSE IF \E i \in 1..Len(str_palavra) : ~EhDigito(str_palavra[i]) THEN "ValueError"
    ELSE "nenhum"

\* lines 90-102: the tokens are read in order, the first bad one raises
LacoDecodificar(palavras) ==
    LET ruins == {k \in 1..Len(palavras) : ErroDoToken(palavras[k]) # "nenhum"}
        acumulado[k \in 0..Len(palavras)] ==
            IF k = 0 THEN <<>>
            ELSE acumulado[k - 1] \o DecodificarToken(palavras[k]).dados
    IN IF ruins # {}
       THEN [erro |-> "ValueError", bitstream |-> <<>>]
       ELSE [erro |-> "nenhum", bitstream |-> acumulado[Len(palavras)]]

\* line 104
Cabecalho(bits) == bits_para_inteiro(Fatia(bits, 0, 32))

\* lines 105-106, tamanho being the value of the header
Desenquadrar(bits, tamanho) ==
    LET bits_dados == Fatia(bits, 32, 32 + tamanho * 8)
        valor == bits_para_inteiro(bits_dados)
    IN IF NaoCabe(valor, tamanho)
       THEN [erro |-> "OverflowError", dados |-> <<>>]
       ELSE [erro |-> "nenhum", dados |-> BytesDoInt(valor, tamanho)]

-----------------------------------------------------------------------------
(* SpecBloco: one data block through the codec *)

MaxBloco == 15

MaxInversoes == 2

\* Data blocks of the runs: block k holds the 26 bits, most significant
\* first, of k * 44739243 modulo 2^26 (block 0 is all zeros).
BlocoDeTeste(k) ==
    Lista([j \in 1..26 |-> (((k * 44739243) % 67108864) \div (2 ^ (26 - j))) % 2])

BlocosDeTeste == {BlocoDeTeste(k) : k \in 0..MaxBloco}

ArquivoAusente == [existe |-> FALSE, conteudo |-> <<>>]

InitBloco ==
    /\ pc = "inicio"
    /\ erro = "nenhum"
    /\ bloco_dados \in BlocosDeTeste
    /\ palavra_enviada = <<>>
    /\ palavra_recebida = <<>>
    /\ invertidos = {}
    /\ pos_erro = 0
    /\ palavra_corrigida = <<>>
    /\ bloco_saida = <<>>
    /\ dados_bytes = <<>>
    /\ arq_hamming = ArquivoAusente
    /\ arq_dec = ArquivoAusente
    /\ alteracao = "nenhuma"
    /\ bitstream = <<>>
    /\ tamanho_original = 0

\* lines 60-67 for one block
CodificarPalavra ==
    /\ pc = "inicio"
    /\ palavra_enviada' = CodificarBloco(Preencher(bloco_dados))
    /\ palavra_recebida' = palavra_enviada'
    /\ pc' = "codificado"
    /\ UNCHANGED <<erro, bloco_dados, invertidos, pos_erro, palavra_corrigida,
                   bloco_saida>>
    /\ UNCHANGED varsArquivo

InverterCaractere(c) == IF c = "0" THEN "1" ELSE "0"

\* The stored word is damaged: one more position is inverted (positions are
\* taken in ascending order, the set of inverted positions is what matters).
InverterBit(i) ==
    /\ pc = "codificado"
    /\ \A j \in invertidos : j < i
    /\ Cardinality(invertidos) < MaxInversoes
    /\ invertidos' = invertidos \cup {i}
    /\ palavra_recebida' =
            [palavra_recebida EXCEPT ![i] = InverterCaractere(palavra_recebida[i])]
    /\ UNCHANGED <<pc, erro, bloco_dados, palavra_enviada, pos_erro,
                   palavra_corrigida, bloco_saida>>
    /\ UNCHANGED varsArquivo

\* lines 93-102 for one token
DecodificarPalavra ==
    /\ pc = "codificado"
    /\ IF TamanhoInvalido(palavra_recebida)
          \/ \E i \in 1..Len(palavra_recebida) : ~EhDigito(palavra_recebida[i])
       THEN /\ erro' = "ValueError"
            /\ pc' = "falhou"
            /\ UNCHANGED <<pos_erro, palavra_corrigida, bloco_saida>>
       ELSE \E r \in {DecodificarToken(palavra_recebida)} :
                /\ pos_erro' = r.pos_erro
                /\ palavra_corrigida' = r.palavra
                /\ bloco_saida' = r.dados
                /\ pc' = "decodificado"
                /\ erro' = "nenhum"
    /\ UNCHANGED <<bloco_dados, palavra_enviada, palavra_recebida, invertidos>>
    /\ UNCHANGED varsArquivo

NextBloco ==
    \/ CodificarPalavra
    \/ \E i \in 1..TAMANHO_PALAVRA : InverterBit(i)
    \/ DecodificarPalavra

SpecBloco == InitBloco /\ [][NextBloco]_vars

-----------------------------------------------------------------------------
(* Spec: one file through codificar_arquivo and decodificar_arquivo *)

MaxBytes == 4

\* Decoding is modelled for headers of at most this many binary digits.
MaxBitsTamanho == 4

BytesDeTeste == {0, 165}

ArquivosDeTeste == UNION {[1..n -> BytesDeTeste] : n \in 0..MaxBytes}

CaracteresEstranhos == {"2", "a"}

Init ==
    /\ pc = "inicio"
    /\ erro = "nenhum"
    /\ dados_bytes \in ArquivosDeTeste
    /\ arq_hamming = ArquivoAusente
    /\ arq_dec = ArquivoAusente
    /\ alteracao = "nenhuma"
    /\ bitstream = <<>>
    /\ tamanho_original = 0
    /\ bloco_dados = <<>>
    /\ palavra_enviada = <<>>
    /\ palavra_recebida = <<>>
    /\ invertidos = {}
    /\ pos_erro = 0
    /\ palavra_corrigida = <<>>
    /\ bloco_saida = <<>>

\* codificar_arquivo
Codificar ==
    /\ pc = "inicio"
    /\ arq_hamming' = [existe |-> TRUE, conteudo |-> CodificarTexto(dados_bytes)]
    /\ pc' = "codificado"
    /\ UNCHANGED <<erro, dados_bytes, arq_dec, alteracao, bitstream, tamanho_original>>
    /\ UNCHANGED varsBloco

Alterar(texto, como) ==
    /\ pc = "codificado"
    /\ arq_hamming' = [existe |-> TRUE, conteudo |-> texto]
    /\ alteracao' = como
    /\ pc' = "alterado"
    /\ UNCHANGED <<erro, dados_bytes, arq_dec, bitstream, tamanho_original>>
    /\ UNCHANGED varsBloco

\* The last k tokens of the .hamming file are lost.
Truncar(k) ==
    LET palavras == Split(arq_hamming.conteudo)
    IN /\ pc = "codificado"
       /\ k <= Len(palavras)
       /\ Alterar(Juntar(SubSeq(palavras, 1, Len(palavras) - k)), "truncado")

\* One character of the .hamming file is replaced by a character that is not a bit.
Substituir(i, c) ==
    /\ pc = "codificado"
    /\ i <= Len(arq_hamming.conteudo)
    /\ Alterar([arq_hamming.conteudo EXCEPT ![i] = c], "substituido")

\* One character of the .hamming file is lost.
Remover(i) ==
    /\ pc = "codificado"
    /\ i <= Len(arq_hamming.conteudo)
    /\ Alterar(SubSeq(arq_hamming.conteudo, 1, i - 1)
                \o SubSeq(arq_hamming.conteudo, i + 1, Len(arq_hamming.conteudo)),
               "removido")

Falhar(excecao) ==
    /\ erro' = excecao
    /\ pc' = "falhou"
    /\ UNCHANGED arq_dec

\* decodificar_arquivo
Decodificar ==
    /\ pc \in {"codificado", "alterado"}
    /\ \E r \in {LacoDecodificar(Split(arq_hamming.conteudo))} :
         IF r.erro # "nenhum"
         THEN /\ Falhar(r.erro)
              /\ UNCHANGED <<bitstream, tamanho_original>>
         ELSE \E cabecalho \in {Cabecalho(r.bitstream)} :
              /\ Len(cabecalho) <= MaxBitsTamanho
              /\ bitstream' = r.bitstream
              /\ tamanho_original' = NatDeInt(cabecalho)
              /\ \E d \in {Desenquadrar(r.bitstream, NatDeInt(cabecalho))} :
                   IF d.erro # "nenhum"
                   THEN Falhar(d.erro)
                   ELSE /\ arq_dec' = [existe |-> TRUE, conteudo |-> d.dados]
                        /\ erro' = "nenhum"
                        /\ pc' = "decodificado"
    /\ UNCHANGED <<dados_bytes, arq_hamming, alteracao>>
    /\ UNCHANGED varsBloco

MaxCaracteres == 32 * ((32 + 8 * (MaxBytes + 1) + 25) \div 26)

Next ==
    \/ Codificar
    \/ \E k \in 1..MaxCaracteres : Truncar(k)
    \/ \E i \in 1..MaxCaracteres, c \in CaracteresEstranhos : Substituir(i, c)
    \/ \E i \in 1..MaxCaracteres : Remover(i)
    \/ Decodificar

Spec == Init /\ [][Next]_vars

-----------------------------------------------------------------------------
(* Properties.  The definitions below restate the code without using it.   *)

BitDoCaractere(c) == IF c = "1" THEN 1 ELSE 0

\* PosicaoDoDado[j]: position of data bit j, the j-th position of 1..31 that
\* is no power of two
PosicaoDoDado ==
    Lista([j \in 1..26 |->
        CHOOSE i \in (1..31) \ {1, 2, 4, 8, 16} :
            Cardinality({m \in (1..31) \ {1, 2, 4, 8, 16} : m < i}) = j - 1])

\* Cobertas[p]: the positions other than p that parity position p covers
Cobertas ==
    [p \in {1, 2, 4, 8, 16} |-> {i \in 1..31 : i # p /\ (i \div p) % 2 = 1}]

Impar(S) == Cardinality(S) % 2 = 1

ApenasBits(str_palavra) == \A i \in 1..Len(str_palavra) : str_palavra[i] \in {"0", "1"}

SoZeros31 == [i \in 1..31 |-> "0"]

Terminou == pc \in {"decodificado", "falhou"}

\* C1: a word decoded untouched, or with exactly one of its 31 positions
\* inverted, gives back the 26 data bits that were encoded, without error.
C1_CorrigeUmErro ==
    (pc \in {"decodificado", "falhou"} /\ Cardinality(invertidos) <= 1)
        => /\ pc = "decodificado"
           /\ erro = "nenhum"
           /\ bloco_saida = bloco_dados

C1_Testemunha ==
    /\ pc = "decodificado"
    /\ invertidos = {16}
    /\ pos_erro = 16
    /\ bloco_saida = bloco_dados
    /\ \E j \in 1..26 : bloco_dados[j] = 1

\* C2: in the emitted word every parity position holds the XOR of the positions
\* it covers, and data bit j sits unchanged at the j-th non-parity position.
C2_PalavraValida ==
    (pc = "codificado" /\ invertidos = {})
        => /\ Len(palavra_enviada) = 31
           /\ ApenasBits(palavra_enviada)
           /\ \A p \in {1, 2, 4, 8, 16} :
                 (palavra_enviada[p] = "1")
                    <=> Impar({i \in Cobertas[p] : palavra_enviada[i] = "1"})
           /\ \A j \in 1..26 :
                 BitDoCaractere(palavra_enviada[PosicaoDoDado[j]]) = bloco_dados[j]

C2_Testemunha ==
    /\ pc = "codificado"
    /\ invertidos = {}
    /\ palavra_enviada[31] = "1"
    /\ palavra_enviada[16] = "1"
    /\ palavra_enviada[1] = "1"

\* C9: the syndrome of any word read lies in 0..31, and the word the data
\* bits are taken from passes all five parity checks.
C9_SindromeNoIntervalo ==
    pc = "decodificado"
        => /\ pos_erro \in 0..31
           /\ \A p \in {1, 2, 4, 8, 16} :
                 ~Impar({i \in Cobertas[p] \cup {p} : palavra_corrigida[i] = 1})

C9_Testemunha ==
    /\ pc = "decodificado"
    /\ Cardinality(invertidos) = 2
    /\ pos_erro = 31

\* C10: with exactly two positions inverted the decoder raises nothing, finds
\* a non-zero syndrome, inverts a third position, and returns data bits that
\* differ from the ones encoded.
C10_DoisErrosSilenciosos ==
    (pc \in {"decodificado", "falhou"} /\ Cardinality(invertidos) = 2)
        => /\ pc = "decodificado"
           /\ erro = "nenhum"
           /\ pos_erro \in 1..31
           /\ pos_erro \notin invertidos
           /\ \A i \in 1..31 :
                 (palavra_corrigida[i] # BitDoCaractere(palavra_recebida[i]))
                    <=> i = pos_erro
           /\ bloco_saida # bloco_dados

C10_Testemunha ==
    /\ pc = "decodificado"
    /\ invertidos = {1, 2}
    /\ pos_erro = 3
    /\ bloco_saida # bloco_dados

\* The bits at the 26 data positions of the tokens of texto, in order
DadosDoTexto(texto) ==
    Lista([m \in 1..26 * ((Len(texto) + 1) \div 32) |->
        BitDoCaractere(texto[32 * ((m - 1) \div 26) + PosicaoDoDado[((m - 1) % 26) + 1]])])

\* The value of byte k of b in the eight bits of a bit list that start after bit a
ByteNosBits(bits, a) ==
    128 * bits[a + 1] + 64 * bits[a + 2] + 32 * bits[a + 3] + 16 * bits[a + 4]
    + 8 * bits[a + 5] + 4 * bits[a + 6] + 2 * bits[a + 7] + bits[a + 8]

\* C3: decoding the unmodified output of the encoder is always possible and
\* writes exactly the bytes that were encoded (same length, same values),
\* whatever the buffer.
C3_IdaEVolta ==
    /\ (pc = "codificado")
          => LET r == LacoDecodificar(Split(arq_hamming.conteudo))
             IN r.erro = "nenhum" /\ Len(Cabecalho(r.bitstream)) <= MaxBitsTamanho
    /\ (Terminou /\ alteracao = "nenhuma")
          => /\ pc = "decodificado"
             /\ erro = "nenhum"
             /\ arq_dec.existe
             /\ Len(arq_dec.conteudo) = Len(dados_bytes)
             /\ \A k \in 1..Len(dados_bytes) : arq_dec.conteudo[k] = dados_bytes[k]
             /\ tamanho_original = Len(dados_bytes)

C3_Testemunha ==
    /\ pc = "decodificado"
    /\ alteracao = "nenhuma"
    /\ dados_bytes = <<0, 165, 0>>
    /\ arq_dec.conteudo = <<0, 165, 0>>
    /\ Len(bitstream) > 32 + 8 * Len(dados_bytes)

\* C4 as stated: the encoding of a 0-byte file is a single codeword of zero
\* data bits, and decoding it gives a 0-byte file.
C4_UmaPalavra ==
    /\ (pc = "codificado" /\ dados_bytes = <<>>)
          => /\ Len(Split(arq_hamming.conteudo)) = 1
             /\ \A m \in DOMAIN DadosDoTexto(arq_hamming.conteudo) :
                   DadosDoTexto(arq_hamming.conteudo)[m] = 0
    /\ (Terminou /\ alteracao = "nenhuma" /\ dados_bytes = <<>>)
          => (pc = "decodificado" /\ arq_dec.existe /\ arq_dec.conteudo = <<>>)

\* C4 amended: the encoding of a 0-byte file is two codewords (the 32-bit
\* header does not fit the 26 data bits of one), every bit of both zero, and
\* decoding it gives a 0-byte file.
C4_DuasPalavras ==
    /\ (pc = "codificado" /\ dados_bytes = <<>>)
          => /\ arq_hamming.existe
             /\ Split(arq_hamming.conteudo) = <<SoZeros31, SoZeros31>>
             /\ arq_hamming.conteudo = SoZeros31 \o <<" ">> \o SoZeros31
    /\ (Terminou /\ alteracao = "nenhuma" /\ dados_bytes = <<>>)
          => /\ pc = "decodificado"
             /\ tamanho_original = 0
             /\ arq_dec.existe
             /\ arq_dec.conteudo = <<>>

C4_Testemunha ==
    /\ pc = "decodificado"
    /\ alteracao = "nenhuma"
    /\ dados_bytes = <<>>
    /\ Len(Split(arq_hamming.conteudo)) = 2
    /\ arq_dec.existe

\* C5: the encoding of n bytes is ceil((32 + 8n) / 26) tokens of 31
\* characters '0'/'1' joined by single spaces; the data bits of the tokens are
\* the 32-bit big-endian length, the bytes most significant bit first, and
\* then only zeros, fewer than 26 of them.
C5_FormatoDaSaida ==
    pc = "codificado"
        => LET texto == arq_hamming.conteudo
               n == Len(dados_bytes)
               t == (32 + 8 * n + 25) \div 26
               bits == DadosDoTexto(texto)
           IN /\ arq_hamming.existe
              /\ Len(texto) = 32 * t - 1
              /\ \A i \in 1..Len(texto) :
                    IF i % 32 = 0 THEN texto[i] = " " ELSE texto[i] \in {"0", "1"}
              /\ Len(Split(texto)) = t
              /\ \A k \in 1..t : Len(Split(texto)[k]) = 31
              /\ bits[1] = 0
              /\ \A m \in 2..32 : bits[m] = (n \div (2 ^ (32 - m))) % 2
              /\ \A k \in 1..n : ByteNosBits(bits, 32 + 8 * (k - 1)) = dados_bytes[k]
              /\ 26 * t - (32 + 8 * n) < 26
              /\ \A m \in (32 + 8 * n + 1)..(26 * t) : bits[m] = 0

C5_Testemunha ==
    /\ pc = "codificado"
    /\ dados_bytes = <<165, 165, 165, 165>>
    /\ Len(Split(arq_hamming.conteudo)) = 3
    /\ Len(arq_hamming.conteudo) = 95

\* C6 as stated: when the decoded data bits are fewer than 32 + 8n, n being
\* the length read from the header, decoding fails and writes no file.
C6_FaltamBits ==
    (Terminou /\ erro # "ValueError" /\ Len(bitstream) < 32 + 8 * tamanho_original)
        => (pc = "falhou" /\ ~arq_dec.existe)

\* C7: when some token of the input has a length other than 31, decoding
\* raises and writes no file.
C7_TamanhoDaPalavra ==
    (Terminou /\ \E k \in 1..Len(Split(arq_hamming.conteudo)) :
                    Len(Split(arq_hamming.conteudo)[k]) # 31)
        => /\ pc = "falhou"
           /\ erro = "ValueError"
           /\ ~arq_dec.existe

C7_Testemunha ==
    /\ pc = "falhou"
    /\ alteracao = "removido"
    /\ Len(Split(arq_hamming.conteudo)) = 3
    /\ Len(Split(arq_hamming.conteudo)[1]) = 31
    /\ Len(Split(arq_hamming.conteudo)[2]) = 30
    /\ ~arq_dec.existe

\* C8 as stated: when some character of a 31-character token is neither '0'
\* nor '1', decoding fails and writes no file.
C8_SoBits ==
    (Terminou /\ \E k \in 1..Len(Split(arq_hamming.conteudo)) :
                    /\ Len(Split(arq_hamming.conteudo)[k]) = 31
                    /\ ~ApenasBits(Split(arq_hamming.conteudo)[k]))
        => (pc = "falhou" /\ ~arq_dec.existe)

====
